---------------------------- MODULE Spec2Model ----------------------------
(***************************************************************************)
(* Frame-resource ring and fence synchronisation of the two demo           *)
(* applications of this repository:                                        *)
(*   ShapesApp          src/Assign1/Assign1/Project/ShapesApp.cpp          *)
(*   TreeBillboardsApp  src/Templates/Template code/TreeBillboards/        *)
(*                      TreeBillboardsApp.cpp                              *)
(* The CPU thread runs Initialize and then the frame loop Update; Draw.    *)
(* The GPU consumes the command queue concurrently.  Window messages       *)
(* (mouse, resize) arrive between two frames.                              *)
(*                                                                         *)
(* Numbers are fixed point: One stands for 1.0f.  Matrices are 3x3,        *)
(* row-major 9-tuples (the last row carries the translation, as the last   *)
(* row of an XMFLOAT4X4 does).  Time is counted in quarter seconds.        *)
(***************************************************************************)
EXTENDS Integers, Sequences, FiniteSets, TLC

\* const int gNumFrameResources = 3;
gNumFrameResources == 3

\* D3DApp::SwapChainBufferCount (d3dApp.h)
SwapChainBufferCount == 2

\* ---- bounds of the model ----
\* Largest value mCurrentFence may take: no frame and no resize starts at it.
MaxFence == 5
\* Window messages (mouse moves, resizes) delivered during a run.
MaxMessages == 1
\* Fixed-point scale: the integer that stands for 1.0f.
One == 10
\* gt.DeltaTime() of every frame, in quarter seconds.
DeltaTime == 20
\* mWaves->VertexCount() (128*128 in Initialize), scaled down.
VertexCount == 2

VARIABLES
  app,                    \* which application runs: "Shapes" or "Tree"
  pc,                     \* position of the CPU thread
  mFrameResources,        \* 0..n-1 -> FrameResource
  mCurrFrameResource,     \* nullptr or the index of the pointed element
  mCurrFrameResourceIndex,
  mAllRitems,             \* sequence of RenderItem (Name is the pointer)
  mOpaqueRitems,          \* ShapesApp: sequence of RenderItem pointers
  mRitemLayer,            \* TreeBillboardsApp: layer -> sequence of pointers
  mWavesRitem,            \* TreeBillboardsApp: pointer to the waves item
  wavesVertexBufferGPU,   \* mWavesRitem->Geo->VertexBufferGPU
  mMaterials,             \* name -> Material
  mWaves,                 \* TreeBillboardsApp: state of the wave simulation
  t_base,                 \* static float t_base of UpdateWaves
  mMainPassCB,            \* PassConstants kept by the application
  mCamera,                \* [Theta, Phi, Radius]: mTheta, mPhi, mRadius
  mEyePos,
  mView,
  mProj,                  \* projection, determined by the aspect ratio
  mTimer,                 \* gt.TotalTime()
  mCommandList,           \* [state, alloc, cmds]
  mCommandQueue,          \* commands the GPU has not finished yet
  mCurrentFence,          \* D3DApp::mCurrentFence
  completedValue,         \* mFence->GetCompletedValue()
  waitValue,              \* value given to SetEventOnCompletion
  mCurrBackBuffer,
  copyCount,              \* CopyData calls per constant-buffer slot
  signalled,              \* fence values enqueued by Draw
  messages                \* window messages delivered so far

vars ==
  << app, pc, mFrameResources, mCurrFrameResource, mCurrFrameResourceIndex,
     mAllRitems, mOpaqueRitems, mRitemLayer, mWavesRitem, wavesVertexBufferGPU,
     mMaterials, mWaves, t_base, mMainPassCB, mCamera, mEyePos, mView, mProj,
     mTimer,
     mCommandList, mCommandQueue, mCurrentFence, completedValue, waitValue,
     mCurrBackBuffer, copyCount, signalled, messages >>

Apps == {"Shapes", "Tree"}

Layers == <<"Opaque", "Transparent", "AlphaTested", "AlphaTestedTreeSprites">>

\* FrameResource* mCurrFrameResource = nullptr: a pointer to a frame resource
\* is the index of the element of mFrameResources it points to, the null
\* pointer is no index.
nullptr == -1

\* A null pointer to an object the model keeps by value (mWaves, the
\* VertexBufferGPU of the waves geometry).
NullObject == [nullptr |-> TRUE]

\* ID3D12CommandAllocator mDirectCmdListAlloc of D3DApp: the command
\* allocators are numbered, those of the frame resources by their index.
mDirectCmdListAlloc == gNumFrameResources

\* MathHelper::Identity4x4(), for the matrices kept in symbolic form (mView,
\* mProj), and the position (0, 0, 0) in spherical coordinates.
Identity4x4 == [Matrix |-> "Identity"]

Origin == [Radius |-> 0, Phi |-> 0, Theta |-> 0]

\* The vertex buffers IASetVertexBuffers binds: the WavesVB of a frame
\* resource, or the static buffer of a geometry.
WavesVBOf(f) == [FrameResource |-> f, Buffer |-> "WavesVB"]

StaticVertexBuffer == [Buffer |-> "VertexBufferGPU"]

\* Content of an upload-buffer element no CopyData has written yet.
Unwritten == [Unwritten |-> TRUE]

\* ---------------------------------------------------------------------
\* Helpers
\* ---------------------------------------------------------------------

\* A 0-based array of n elements.
Array(n, f(_)) == [i \in 0..(n - 1) |-> f(i)]

Range(s) == {s[i] : i \in DOMAIN s}

Identity3x3 == <<One, 0, 0, 0, One, 0, 0, 0, One>>

XMMatrixScaling(s) == <<s * One, 0, 0, 0, s * One, 0, 0, 0, One>>

XMMatrixTranslation(x, y) == <<One, 0, 0, 0, One, 0, x * One, y * One, One>>

XMMatrixTranspose(M) == [k \in 1..9 |-> M[((k - 1) % 3) * 3 + ((k - 1) \div 3) + 1]]

Clamp(x, low, high) == IF x < low THEN low ELSE IF x > high THEN high ELSE x

\* XM_PI in fixed point.
Pi == (314 * One) \div 100

\* ---------------------------------------------------------------------
\* Scene tables: BuildMaterials and BuildRenderItems
\* ---------------------------------------------------------------------

\* ShapesApp::BuildMaterials, in declaration order (MatCBIndex = cbIndex++).
\* Roughness is in thousandths.
ShapesMaterialDecls ==
  << [Name |-> "gold", Roughness |-> 10],
     [Name |-> "stone0", Roughness |-> 800],
     [Name |-> "tile0", Roughness |-> 800],
     [Name |-> "skullMat", Roughness |-> 300],
     [Name |-> "diamond1Mat", Roughness |-> 300],
     [Name |-> "diamond2Mat", Roughness |-> 800],
     [Name |-> "torusMat", Roughness |-> 400],
     [Name |-> "pyramidMat", Roughness |-> 800],
     [Name |-> "prismMat", Roughness |-> 700],
     [Name |-> "wedgeMat", Roughness |-> 550] >>

\* TreeBillboardsApp::BuildMaterials: MatCBIndex is written out for each.
TreeMaterialDecls ==
  << [Name |-> "grass", MatCBIndex |-> 0, Roughness |-> 125],
     [Name |-> "water", MatCBIndex |-> 1, Roughness |-> 0],
     [Name |-> "wirefence", MatCBIndex |-> 2, Roughness |-> 250],
     [Name |-> "treeSprites", MatCBIndex |-> 3, Roughness |-> 250] >>

\* A Material as its constructor leaves it (struct Material, d3dUtil.h):
\* dirty for every frame resource, identity MatTransform.
NewMaterial(cbIndex, roughness) ==
  [MatCBIndex |-> cbIndex, NumFramesDirty |-> gNumFrameResources,
   Roughness |-> roughness, MatTransform |-> Identity3x3]

ShapesBuildMaterials ==
  [n \in {ShapesMaterialDecls[k].Name : k \in DOMAIN ShapesMaterialDecls} |->
     LET k == CHOOSE j \in DOMAIN ShapesMaterialDecls : ShapesMaterialDecls[j].Name = n
     IN  NewMaterial(k - 1, ShapesMaterialDecls[k].Roughness)]

TreeBuildMaterials ==
  [n \in {TreeMaterialDecls[k].Name : k \in DOMAIN TreeMaterialDecls} |->
     LET k == CHOOSE j \in DOMAIN TreeMaterialDecls : TreeMaterialDecls[j].Name = n
     IN  NewMaterial(TreeMaterialDecls[k].MatCBIndex, TreeMaterialDecls[k].Roughness)]

BuildMaterials(a) == IF a = "Shapes" THEN ShapesBuildMaterials ELSE TreeBuildMaterials

\* ShapesApp::BuildRenderItems, in declaration order (ObjCBIndex = objCBIndex++).
\* TexScale is the factor of XMMatrixScaling in TexTransform.
ShapesRitemDecls ==
  << [Name |-> "keepBox", Mat |-> "stone0", TexScale |-> 1],
     [Name |-> "keepRoofPyramid", Mat |-> "wedgeMat", TexScale |-> 1],
     [Name |-> "keepStairsWedge", Mat |-> "wedgeMat", TexScale |-> 1],
     [Name |-> "backWallBox", Mat |-> "stone0", TexScale |-> 1],
     [Name |-> "RfrontWallBox", Mat |-> "stone0", TexScale |-> 1],
     [Name |-> "LfrontWallBox", Mat |-> "stone0", TexScale |-> 1],
     [Name |-> "leftWallBox", Mat |-> "stone0", TexScale |-> 1],
     [Name |-> "rightWallBox", Mat |-> "stone0", TexScale |-> 1],
     [Name |-> "RLTowerBox", Mat |-> "diamond2Mat", TexScale |-> 1],
     [Name |-> "RRTowerBox", Mat |-> "diamond2Mat", TexScale |-> 1],
     [Name |-> "FLTowerBox", Mat |-> "diamond2Mat", TexScale |-> 1],
     [Name |-> "FRTowerBox", Mat |-> "diamond2Mat", TexScale |-> 1],
     [Name |-> "RLTowerCap", Mat |-> "prismMat", TexScale |-> 1],
     [Name |-> "RRTowerCap", Mat |-> "prismMat", TexScale |-> 1],
     [Name |-> "FLTowerCap", Mat |-> "prismMat", TexScale |-> 1],
     [Name |-> "FRTowerCap", Mat |-> "prismMat", TexScale |-> 1],
     [Name |-> "leftGateBox", Mat |-> "diamond2Mat", TexScale |-> 1],
     [Name |-> "rightGateBox", Mat |-> "diamond2Mat", TexScale |-> 1],
     [Name |-> "leftGateWedge", Mat |-> "wedgeMat", TexScale |-> 1],
     [Name |-> "rightGateWedge", Mat |-> "wedgeMat", TexScale |-> 1],
     [Name |-> "diamond1", Mat |-> "skullMat", TexScale |-> 1],
     [Name |-> "diamond2", Mat |-> "skullMat", TexScale |-> 1],
     [Name |-> "torus", Mat |-> "gold", TexScale |-> 1],
     [Name |-> "skullRitem", Mat |-> "diamond1Mat", TexScale |-> 1],
     [Name |-> "gridRitem", Mat |-> "tile0", TexScale |-> 40] >>

TreeRitemDecls ==
  << [Name |-> "wavesRitem", Mat |-> "water", TexScale |-> 5, Index |-> 0, Layer |-> "Transparent"],
     [Name |-> "gridRitem", Mat |-> "grass", TexScale |-> 5, Index |-> 1, Layer |-> "Opaque"],
     [Name |-> "boxRitem", Mat |-> "wirefence", TexScale |-> 1, Index |-> 2, Layer |-> "AlphaTested"],
     [Name |-> "treeSpritesRitem", Mat |-> "treeSprites", TexScale |-> 1, Index |-> 3, Layer |-> "AlphaTestedTreeSprites"],
     [Name |-> "keepBox", Mat |-> "water", TexScale |-> 1, Index |-> -1, Layer |-> "AlphaTested"],
     [Name |-> "keepRoofPyramid", Mat |-> "water", TexScale |-> 1, Index |-> -1, Layer |-> "Opaque"],
     [Name |-> "keepStairsWedge", Mat |-> "water", TexScale |-> 1, Index |-> -1, Layer |-> "Opaque"],
     [Name |-> "backWallBox", Mat |-> "water", TexScale |-> 1, Index |-> -1, Layer |-> "Opaque"],
     [Name |-> "RfrontWallBox", Mat |-> "water", TexScale |-> 1, Index |-> -1, Layer |-> "Opaque"],
     [Name |-> "LfrontWallBox", Mat |-> "water", TexScale |-> 1, Index |-> -1, Layer |-> "Opaque"],
     [Name |-> "leftWallBox", Mat |-> "water", TexScale |-> 1, Index |-> -1, Layer |-> "Opaque"],
     [Name |-> "rightWallBox", Mat |-> "water", TexScale |-> 1, Index |-> -1, Layer |-> "Opaque"],
     [Name |-> "RLTowerBox", Mat |-> "water", TexScale |-> 1, Index |-> -1, Layer |-> "Opaque"],
     [Name |-> "RRTowerBox", Mat |-> "water", TexScale |-> 1, Index |-> -1, Layer |-> "Opaque"],
     [Name |-> "FLTowerBox", Mat |-> "water", TexScale |-> 1, Index |-> -1, Layer |-> "Opaque"],
     [Name |-> "FRTowerBox", Mat |-> "water", TexScale |-> 1, Index |-> -1, Layer |-> "Opaque"],
     [Name |-> "RLTowerCap", Mat |-> "water", TexScale |-> 1, Index |-> -1, Layer |-> "Opaque"],
     [Name |-> "RRTowerCap", Mat |-> "water", TexScale |-> 1, Index |-> -1, Layer |-> "Opaque"],
     [Name |-> "FLTowerCap", Mat |-> "water", TexScale |-> 1, Index |-> -1, Layer |-> "Opaque"],
     [Name |-> "FRTowerCap", Mat |-> "water", TexScale |-> 1, Index |-> -1, Layer |-> "Opaque"],
     [Name |-> "leftGateBox", Mat |-> "water", TexScale |-> 1, Index |-> -1, Layer |-> "Opaque"],
     [Name |-> "rightGateBox", Mat |-> "water", TexScale |-> 1, Index |-> -1, Layer |-> "Opaque"],
     [Name |-> "leftGateWedge", Mat |-> "water", TexScale |-> 1, Index |-> -1, Layer |-> "Opaque"],
     [Name |-> "rightGateWedge", Mat |-> "water", TexScale |-> 1, Index |-> -1, Layer |-> "Opaque"],
     [Name |-> "diamond1", Mat |-> "water", TexScale |-> 1, Index |-> -1, Layer |-> "Opaque"],
     [Name |-> "diamond2", Mat |-> "water", TexScale |-> 1, Index |-> -1, Layer |-> "Opaque"],
     [Name |-> "torus", Mat |-> "water", TexScale |-> 1, Index |-> -1, Layer |-> "Opaque"],
     [Name |-> "skullRitem", Mat |-> "water", TexScale |-> 1, Index |-> -1, Layer |-> "Opaque"] >>

TreeAllRitemsOrder ==
  << "keepRoofPyramid", "keepStairsWedge", "backWallBox", "RfrontWallBox", "LfrontWallBox", "leftWallBox", "rightWallBox", "RLTowerBox", "RRTowerBox", "FLTowerBox", "FRTowerBox", "RLTowerCap", "RRTowerCap", "FLTowerCap", "FRTowerCap", "leftGateBox", "rightGateBox", "leftGateWedge", "rightGateWedge", "diamond1", "diamond2", "torus", "skullRitem", "wavesRitem", "gridRitem", "boxRitem", "treeSpritesRitem", "keepBox" >>
\* A RenderItem as BuildRenderItems leaves it.  k is the place of the item in
\* the declaration order; its World stands for the hand-placed transform of
\* the item, a different constant for each item.
NewRenderItem(name, k, objCBIndex, mat, texScale) ==
  [Name |-> name, World |-> XMMatrixTranslation(k, 1),
   TexTransform |-> XMMatrixScaling(texScale),
   NumFramesDirty |-> gNumFrameResources, ObjCBIndex |-> objCBIndex, Mat |-> mat]

ShapesBuildRenderItems ==
  [k \in DOMAIN ShapesRitemDecls |->
     NewRenderItem(ShapesRitemDecls[k].Name, k, k - 1,
                   ShapesRitemDecls[k].Mat, ShapesRitemDecls[k].TexScale)]

\* ObjCBIndex of the k-th declared item of TreeBillboardsApp: the literal, or
\* the value of the counter objCBIndex (4 at first, ++ at every use).
TreeObjCBIndex(k) ==
  IF TreeRitemDecls[k].Index >= 0
  THEN TreeRitemDecls[k].Index
  ELSE 4 + Cardinality({j \in 1..(k - 1) : TreeRitemDecls[j].Index < 0})

TreeDeclOf(name) == CHOOSE k \in DOMAIN TreeRitemDecls : TreeRitemDecls[k].Name = name

TreeBuildRenderItems ==
  [p \in DOMAIN TreeAllRitemsOrder |->
     LET k == TreeDeclOf(TreeAllRitemsOrder[p])
     IN  NewRenderItem(TreeRitemDecls[k].Name, k, TreeObjCBIndex(k),
                       TreeRitemDecls[k].Mat, TreeRitemDecls[k].TexScale)]

BuildRenderItems(a) == IF a = "Shapes" THEN ShapesBuildRenderItems ELSE TreeBuildRenderItems

\* "All the render items are opaque": one pointer for each element of items.
BuildOpaqueRitems(items) == [k \in DOMAIN items |-> items[k].Name]

\* mRitemLayer[layer]: the push_back calls of BuildRenderItems, in order.
LayerDecls(layer) == SelectSeq(TreeRitemDecls, LAMBDA d : d.Layer = layer)

BuildRitemLayer ==
  [l \in Range(Layers) |-> [k \in DOMAIN LayerDecls(l) |-> LayerDecls(l)[k].Name]]

EmptyRitemLayer == [l \in Range(Layers) |-> <<>>]

\* ---------------------------------------------------------------------
\* Frame resources
\* ---------------------------------------------------------------------

\* UploadBuffer<T>(device, elementCount, ...): elementCount elements, none written.
UploadBuffer(elementCount) == Array(elementCount, LAMBDA i : Unwritten)

\* UploadBuffer::CopyData(elementIndex, data).
CopyData(buffer, elementIndex, data) == [buffer EXCEPT ![elementIndex] = data]

\* FrameResource(device, passCount, objectCount, materialCount, waveVertCount).
FrameResource(passCount, objectCount, materialCount, waveVertCount) ==
  [Fence |-> 0,
   PassCB |-> UploadBuffer(passCount),
   ObjectCB |-> UploadBuffer(objectCount),
   MaterialCB |-> UploadBuffer(materialCount),
   WavesVB |-> UploadBuffer(waveVertCount)]

\* ShapesApp has no waves: its frame resources carry no WavesVB element.
BuildFrameResources(a, items, mats) ==
  Array(gNumFrameResources,
        LAMBDA i : FrameResource(1, Len(items), Cardinality(DOMAIN mats),
                                 IF a = "Tree" THEN VertexCount ELSE 0))

\* ---------------------------------------------------------------------
\* Camera and window messages
\* ---------------------------------------------------------------------

\* mTheta, mPhi, mRadius as the class initialisers set them.
InitialCamera(a) ==
  IF a = "Shapes"
  THEN [Theta |-> (3 * Pi) \div 2, Phi |-> (2 * Pi) \div 10, Radius |-> 60 * One]
  ELSE [Theta |-> (3 * Pi) \div 2, Phi |-> Pi \div 2 - One \div 10, Radius |-> 50 * One]

\* Mouse movements delivered to OnMouseMove: the pressed button and the
\* movement, already scaled to radians (left) or scene units (right).
MouseInputs ==
  {[btnState |-> "MK_LBUTTON", dx |-> One, dy |-> 3 * One],
   [btnState |-> "MK_RBUTTON", dx |-> 0, dy |-> 60 * One]}

\* Aspect ratios of the window, in fixed point; the window opens with the
\* first and a resize changes it.
InitialAspectRatio == One

AspectRatios == {One, 2 * One}

\* The camera after OnMouseMove(btnState, x, y).
MouseMoved(cam, in) ==
  IF in.btnState = "MK_LBUTTON"
  THEN [cam EXCEPT !.Theta = @ + in.dx,
                   !.Phi = Clamp(@ + in.dy, One \div 10, Pi - One \div 10)]
  ELSE [cam EXCEPT !.Radius = Clamp(@ + in.dx - in.dy, 5 * One, 150 * One)]

\* XMMatrixPerspectiveFovLH(0.25f*Pi, AspectRatio(), 1.0f, 1000.0f)
XMMatrixPerspectiveFovLH(aspect) ==
  [FovY |-> Pi \div 4, Aspect |-> aspect, NearZ |-> One, FarZ |-> 1000 * One]

\* UpdateCamera: the eye position (kept in spherical coordinates here) and
\* the view matrix looking from it at the origin.
EyePosOf(cam) == [Radius |-> cam.Radius, Phi |-> cam.Phi, Theta |-> cam.Theta]

XMMatrixLookAtLH(eye) == [Eye |-> eye, Target |-> <<0, 0, 0>>, Up |-> <<0, One, 0>>]

\* ---------------------------------------------------------------------
\* The per-frame updates of the constant buffers
\* ---------------------------------------------------------------------

\* The last of the frame resources is skipped.
IsDirtySkipsLast(numFramesDirty) == numFramesDirty > 1

\* if(e->NumFramesDirty > 0)
IsDirty(numFramesDirty) == numFramesDirty > 0

\* AnimateMaterials: scrolls the water texture coordinates (entries (3,0)
\* and (3,1) of MatTransform, here the last row) and marks the material
\* dirty for every frame resource.  ShapesApp::AnimateMaterials is empty.
AnimatedWater(water, dt) ==
  LET tu0 == water.MatTransform[7] + (dt * One) \div 40
      tv0 == water.MatTransform[8] + (dt * One) \div 200
      tu == IF tu0 >= One THEN tu0 - One ELSE tu0
      tv == IF tv0 >= One THEN tv0 - One ELSE tv0
  IN  [water EXCEPT !.MatTransform = [@ EXCEPT ![7] = tu, ![8] = tv],
                    !.NumFramesDirty = gNumFrameResources]

AnimateMaterials(a, mats, dt) ==
  IF a = "Tree" THEN [mats EXCEPT !["water"] = AnimatedWater(@, dt)] ELSE mats

\* ObjectConstants of a render item, as UpdateObjectCBs stores them.
ObjectConstantsOf(e) ==
  [World |-> XMMatrixTranspose(e.World),
   TexTransform |-> XMMatrixTranspose(e.TexTransform)]

\* MaterialConstants of a material, as UpdateMaterialCBs stores them.
MaterialConstantsOf(mat) ==
  [Roughness |-> mat.Roughness, MatTransform |-> XMMatrixTranspose(mat.MatTransform)]

\* UpdateObjectCBs: the loop over mAllRitems.  Every dirty render item is
\* copied to element ObjCBIndex of the object constant buffer of the
\* current frame resource and its NumFramesDirty is decremented; were two
\* dirty items to carry the same ObjCBIndex, the later one of the loop
\* would overwrite the earlier.  count is the CopyData count of each element.
DirtyItemsAt(items, i) ==
  {k \in DOMAIN items : IsDirty(items[k].NumFramesDirty) /\ items[k].ObjCBIndex = i}

\* What the loop leaves in element i: the constants of the last dirty
\* render item with ObjCBIndex i, if there is one.
ObjectConstantsWrittenAt(items, i) ==
  {ObjectConstantsOf(items[k]) :
     k \in {d \in DirtyItemsAt(items, i) : \A j \in DirtyItemsAt(items, i) : j <= d}}

\* The loop without the test of NumFramesDirty: every render item is copied.
UpdateObjectCBsWritesAll(items, cb, count) ==
  [items |-> [k \in DOMAIN items |->
                IF IsDirty(items[k].NumFramesDirty)
                THEN [items[k] EXCEPT !.NumFramesDirty = @ - 1]
                ELSE items[k]],
   cb |-> [i \in DOMAIN cb |->
             IF \E k \in DOMAIN items : items[k].ObjCBIndex = i
             THEN ObjectConstantsOf(
                    items[CHOOSE d \in DOMAIN items :
                            /\ items[d].ObjCBIndex = i
                            /\ \A j \in DOMAIN items :
                                 items[j].ObjCBIndex = i => j <= d])
             ELSE cb[i]],
   count |-> [i \in DOMAIN count |->
                count[i] + Cardinality({k \in DOMAIN items : items[k].ObjCBIndex = i})]]

UpdateObjectCBs(items, cb, count) ==
  [items |-> [k \in DOMAIN items |->
                IF IsDirty(items[k].NumFramesDirty)
                THEN [items[k] EXCEPT !.NumFramesDirty = @ - 1]
                ELSE items[k]],
   cb |-> [i \in DOMAIN cb |->
             IF ObjectConstantsWrittenAt(items, i) # {}
             THEN CHOOSE c \in ObjectConstantsWrittenAt(items, i) : TRUE
             ELSE cb[i]],
   count |-> [i \in DOMAIN count |-> count[i] + Cardinality(DirtyItemsAt(items, i))]]

\* UpdateMaterialCBs: the loop over mMaterials.  The materials carry
\* different MatCBIndex values, so the order of the loop does not matter.
DirtyMaterialAt(mats, i) ==
  {n \in DOMAIN mats : IsDirty(mats[n].NumFramesDirty) /\ mats[n].MatCBIndex = i}

\* What the loop leaves in element i: the constants of the dirty material
\* with MatCBIndex i, if there is one.
MaterialConstantsWrittenAt(mats, i) ==
  {MaterialConstantsOf(mats[n]) : n \in DirtyMaterialAt(mats, i)}

\* The materials are written but their NumFramesDirty is not decremented.
UpdateMaterialCBsKeepsDirty(mats, cb, count) ==
  [mats |-> mats,
   cb |-> [i \in DOMAIN cb |->
             IF DirtyMaterialAt(mats, i) # {}
             THEN CHOOSE c \in MaterialConstantsWrittenAt(mats, i) : TRUE
             ELSE cb[i]],
   count |-> [i \in DOMAIN count |-> count[i] + Cardinality(DirtyMaterialAt(mats, i))]]

UpdateMaterialCBs(mats, cb, count) ==
  [mats |-> [n \in DOMAIN mats |->
               IF IsDirty(mats[n].NumFramesDirty)
               THEN [mats[n] EXCEPT !.NumFramesDirty = @ - 1]
               ELSE mats[n]],
   cb |-> [i \in DOMAIN cb |->
             IF DirtyMaterialAt(mats, i) # {}
             THEN CHOOSE c \in MaterialConstantsWrittenAt(mats, i) : TRUE
             ELSE cb[i]],
   count |-> [i \in DOMAIN count |-> count[i] + Cardinality(DirtyMaterialAt(mats, i))]]

\* UpdateMainPassCB: the pass constants of this frame.
MainPassConstants(view, proj, eye, totalTime, dt) ==
  [View |-> view, Proj |-> proj, EyePosW |-> eye,
   NearZ |-> One, FarZ |-> 1000 * One, TotalTime |-> totalTime, DeltaTime |-> dt]

DefaultPassConstants ==
  [View |-> Identity4x4, Proj |-> Identity4x4, EyePosW |-> Origin,
   NearZ |-> 0, FarZ |-> 0, TotalTime |-> 0, DeltaTime |-> 0]

\* ---------------------------------------------------------------------
\* Waves (TreeBillboardsApp)
\* ---------------------------------------------------------------------

\* The wave simulation (class Waves): the number of Update steps taken and
\* of disturbances applied determine the solution.
NewWaves == [steps |-> 0, disturbs |-> 0]

WavesPosition(w, i) == [x |-> i * One, y |-> (w.steps + w.disturbs + i) % One, z |-> 0]

WavesWidth == VertexCount * One

\* The vertex UpdateWaves builds for element i.
WaveVertex(w, i) ==
  LET pos == WavesPosition(w, i)
  IN  [Pos |-> pos,
       TexC |-> [x |-> One \div 2 + (pos.x * One) \div WavesWidth,
                 y |-> One \div 2 - (pos.z * One) \div WavesWidth]]

\* UpdateWaves up to the vertex loop: every quarter second a disturbance
\* (t_base advances by 0.25f), then mWaves->Update(dt).
WavesDisturbDue(totalTime, base) == totalTime - base >= 1

WavesAdvanced(w, totalTime, base) ==
  [steps |-> w.steps + 1,
   disturbs |-> IF WavesDisturbDue(totalTime, base) THEN w.disturbs + 1 ELSE w.disturbs]

\* The loop runs one element too far.
WavesLoopIndicesOneMore == 0..VertexCount

\* for(int i = 0; i < mWaves->VertexCount(); ++i) currWavesVB->CopyData(i, v);
WavesLoopIndices == 0..(VertexCount - 1)

\* A CopyData beyond the end of the buffer shows as an element outside
\* 0..VertexCount-1.
UpdateWavesVB(vb, w) ==
  [i \in DOMAIN vb \cup WavesLoopIndices |->
     IF i \in WavesLoopIndices THEN WaveVertex(w, i) ELSE vb[i]]

\* ---------------------------------------------------------------------
\* Command list, command queue and fence
\* ---------------------------------------------------------------------

\* DrawRenderItems(cmdList, ritems): one draw call for each pointer of
\* ritems, reading the object and material constants of frame resource fr.
\* The waves item draws from the dynamic vertex buffer of its geometry.
ItemOf(items, name) == items[CHOOSE k \in DOMAIN items : items[k].Name = name]

\* The loop stops one render item early.
DrawRenderItemsButLast(fr, ritems, items, mats, wavesItem, wavesVB) ==
  [i \in 1..(Len(ritems) - 1) |->
     LET ri == ItemOf(items, ritems[i])
     IN  [op |-> "DrawIndexedInstanced", item |-> ri.Name,
          objCB |-> <<fr, ri.ObjCBIndex>>,
          matCB |-> <<fr, mats[ri.Mat].MatCBIndex>>,
          vertexBuffer |-> IF ri.Name = wavesItem THEN wavesVB ELSE StaticVertexBuffer]]

DrawRenderItems(fr, ritems, items, mats, wavesItem, wavesVB) ==
  [i \in DOMAIN ritems |->
     LET ri == ItemOf(items, ritems[i])
     IN  [op |-> "DrawIndexedInstanced", item |-> ri.Name,
          objCB |-> <<fr, ri.ObjCBIndex>>,
          matCB |-> <<fr, mats[ri.Mat].MatCBIndex>>,
          vertexBuffer |-> IF ri.Name = wavesItem THEN wavesVB ELSE StaticVertexBuffer]]

Cmd(name) == [op |-> name]

\* The transition with its two states exchanged.
BarrierExchanged(buffer, before, after) ==
  [op |-> "ResourceBarrier", buffer |-> buffer, before |-> after, after |-> before]

Barrier(buffer, before, after) ==
  [op |-> "ResourceBarrier", buffer |-> buffer, before |-> before, after |-> after]

\* The commands ShapesApp::Draw records between Reset and Close.
ShapesRecorded(fr, backBuffer, ritems, items, mats) ==
  <<Cmd("RSSetViewports"), Cmd("RSSetScissorRects"),
    Barrier(backBuffer, "PRESENT", "RENDER_TARGET"),
    [op |-> "ClearRenderTargetView", buffer |-> backBuffer],
    Cmd("ClearDepthStencilView"),
    [op |-> "OMSetRenderTargets", buffer |-> backBuffer],
    Cmd("SetGraphicsRootSignature"),
    [op |-> "SetPassCB", passCB |-> <<fr, 0>>]>>
  \o DrawRenderItems(fr, ritems, items, mats, "nullptr", NullObject)
  \o <<Barrier(backBuffer, "RENDER_TARGET", "PRESENT")>>

\* The commands TreeBillboardsApp::Draw records between Reset and Close.
TreeRecorded(fr, backBuffer, layer, items, mats, wavesItem, wavesVB) ==
  <<Cmd("RSSetViewports"), Cmd("RSSetScissorRects"),
    Barrier(backBuffer, "PRESENT", "RENDER_TARGET"),
    [op |-> "ClearRenderTargetView", buffer |-> backBuffer],
    Cmd("ClearDepthStencilView"),
    [op |-> "OMSetRenderTargets", buffer |-> backBuffer],
    Cmd("SetDescriptorHeaps"),
    Cmd("SetGraphicsRootSignature"),
    [op |-> "SetPassCB", passCB |-> <<fr, 0>>]>>
  \o DrawRenderItems(fr, layer["Opaque"], items, mats, wavesItem, wavesVB)
  \o <<[op |-> "SetPipelineState", pso |-> "alphaTested"]>>
  \o DrawRenderItems(fr, layer["AlphaTested"], items, mats, wavesItem, wavesVB)
  \o <<[op |-> "SetPipelineState", pso |-> "treeSprites"]>>
  \o DrawRenderItems(fr, layer["AlphaTestedTreeSprites"], items, mats, wavesItem, wavesVB)
  \o <<[op |-> "SetPipelineState", pso |-> "transparent"]>>
  \o DrawRenderItems(fr, layer["Transparent"], items, mats, wavesItem, wavesVB)
  \o <<Barrier(backBuffer, "RENDER_TARGET", "PRESENT")>>

\* Entries of the command queue.
ExecuteCommandLists(alloc) == [kind |-> "ExecuteCommandLists", alloc |-> alloc]

\* The value signalled is one ahead of the value stored.
SignalOneAhead(value) == [kind |-> "Signal", value |-> value + 1]

Signal(value) == [kind |-> "Signal", value |-> value]

\* Off by one: the fence may still be one short of the stored value.
MustWaitOffByOne(fence, completed) == fence # 0 /\ completed + 1 < fence

\* mCurrFrameResource->Fence != 0 && mFence->GetCompletedValue() < mCurrFrameResource->Fence
MustWait(fence, completed) == fence # 0 /\ completed < fence

\* The wait is for the frame submitted last.
EventValueMostRecent(fr) == mCurrentFence

\* The wait is for the value before the one stored in the frame resource.
EventValueOneBefore(fr) == fr.Fence - 1

\* The wait is for a value no Draw has signalled yet.
EventValueAhead(fr) == fr.Fence + gNumFrameResources

\* mFence->SetEventOnCompletion(mCurrFrameResource->Fence, eventHandle)
EventValue(fr) == fr.Fence

\* The wait returns one fence value early.
EventSetEarly(completed, value) == completed + 1 >= value

\* The event of SetEventOnCompletion(value, ...) is set once the fence has
\* reached value; WaitForSingleObject returns then.
EventSet(completed, value) == completed >= value

\* The ring is one entry short.
NextFrameResourceIndexShort(i) == (i + 1) % (gNumFrameResources - 1)

\* (mCurrFrameResourceIndex + 1) % gNumFrameResources
NextFrameResourceIndex(i) == (i + 1) % gNumFrameResources

\* D3DApp::FlushCommandQueue: advance the fence value, signal it on the
\* queue and wait until the GPU has reached it.
FlushCommandQueue(queue) ==
  /\ mCurrentFence' = mCurrentFence + 1
  /\ mCommandQueue' = Append(queue, Signal(mCurrentFence + 1))
  /\ pc' = "flushing"

\* ---------------------------------------------------------------------
\* The state after construction
\* ---------------------------------------------------------------------

Init ==
  /\ app \in Apps
  /\ pc = "constructed"
  /\ mFrameResources = <<>>
  /\ mCurrFrameResource = nullptr
  /\ mCurrFrameResourceIndex = 0
  /\ mAllRitems = <<>>
  /\ mOpaqueRitems = <<>>
  /\ mRitemLayer = EmptyRitemLayer
  /\ mWavesRitem = "nullptr"
  /\ wavesVertexBufferGPU = NullObject
  /\ mMaterials = <<>>
  /\ mWaves = NullObject
  /\ t_base = 0
  /\ mMainPassCB = DefaultPassConstants
  /\ mCamera = InitialCamera(app)
  /\ mEyePos = Origin
  /\ mView = Identity4x4
  /\ mProj = Identity4x4
  /\ mTimer = 0
  /\ mCommandList = [state |-> "closed", alloc |-> nullptr, cmds |-> <<>>]
  /\ mCommandQueue = <<>>
  /\ mCurrentFence = 0
  /\ completedValue = 0
  /\ waitValue = 0
  /\ mCurrBackBuffer = 0
  /\ copyCount = <<>>
  /\ signalled = {}
  /\ messages = 0

\* ---------------------------------------------------------------------
\* The CPU thread
\* ---------------------------------------------------------------------

\* Initialize, up to the wait of its FlushCommandQueue.  D3DApp::Initialize
\* creates the window and the device and calls OnResize, which sets mProj.
Initialize ==
  /\ pc = "constructed"
  /\ mProj' = XMMatrixPerspectiveFovLH(InitialAspectRatio)
  /\ mWaves' = IF app = "Tree" THEN NewWaves ELSE mWaves
  /\ mMaterials' = BuildMaterials(app)
  /\ mAllRitems' = BuildRenderItems(app)
  /\ mOpaqueRitems' = IF app = "Shapes" THEN BuildOpaqueRitems(mAllRitems') ELSE <<>>
  /\ mRitemLayer' = IF app = "Tree" THEN BuildRitemLayer ELSE mRitemLayer
  /\ mWavesRitem' = IF app = "Tree" THEN "wavesRitem" ELSE mWavesRitem
  /\ mFrameResources' = BuildFrameResources(app, mAllRitems', mMaterials')
  /\ copyCount' =
       [cb \in {"ObjectCB", "MaterialCB"} |->
          [f \in DOMAIN mFrameResources' |->
             [i \in DOMAIN mFrameResources'[f][cb] |-> 0]]]
  /\ mCommandList' = [state |-> "closed", alloc |-> mDirectCmdListAlloc,
                      cmds |-> <<Cmd("UploadGeometry")>>]
  /\ FlushCommandQueue(Append(mCommandQueue, ExecuteCommandLists(mDirectCmdListAlloc)))
  /\ UNCHANGED << app, mCurrFrameResource, mCurrFrameResourceIndex,
                  wavesVertexBufferGPU, t_base, mMainPassCB, mCamera, mEyePos,
                  mView, mTimer, completedValue, waitValue, mCurrBackBuffer,
                  signalled, messages >>

\* The wait at the end of FlushCommandQueue returns.
FlushReturn ==
  /\ pc = "flushing"
  /\ EventSet(completedValue, mCurrentFence)
  /\ pc' = "idle"
  /\ UNCHANGED << app, mFrameResources, mCurrFrameResource, mCurrFrameResourceIndex,
                  mAllRitems, mOpaqueRitems, mRitemLayer, mWavesRitem,
                  wavesVertexBufferGPU, mMaterials, mWaves, t_base, mMainPassCB,
                  mCamera, mEyePos, mView, mProj, mTimer, mCommandList,
                  mCommandQueue, mCurrentFence, completedValue, waitValue,
                  mCurrBackBuffer, copyCount, signalled, messages >>

\* OnMouseMove, delivered between two frames.
OnMouseMove ==
  /\ pc = "idle"
  /\ messages < MaxMessages
  /\ \E in \in MouseInputs : mCamera' = MouseMoved(mCamera, in)
  /\ messages' = messages + 1
  /\ UNCHANGED << app, pc, mFrameResources, mCurrFrameResource,
                  mCurrFrameResourceIndex, mAllRitems, mOpaqueRitems, mRitemLayer,
                  mWavesRitem, wavesVertexBufferGPU, mMaterials, mWaves, t_base,
                  mMainPassCB, mEyePos, mView, mProj, mTimer, mCommandList,
                  mCommandQueue, mCurrentFence, completedValue, waitValue,
                  mCurrBackBuffer, copyCount, signalled >>

\* OnResize, delivered between two frames: D3DApp::OnResize flushes the
\* command queue and recreates the swap chain buffers (the first becomes
\* current); then the projection matrix is recomputed.
OnResize ==
  /\ pc = "idle"
  /\ messages < MaxMessages
  /\ mCurrentFence < MaxFence
  /\ \E aspect \in AspectRatios :
       /\ XMMatrixPerspectiveFovLH(aspect) # mProj
       /\ mProj' = XMMatrixPerspectiveFovLH(aspect)
  /\ mCurrBackBuffer' = 0
  /\ FlushCommandQueue(mCommandQueue)
  /\ messages' = messages + 1
  /\ UNCHANGED << app, mFrameResources, mCurrFrameResource, mCurrFrameResourceIndex,
                  mAllRitems, mOpaqueRitems, mRitemLayer, mWavesRitem,
                  wavesVertexBufferGPU, mMaterials, mWaves, t_base, mMainPassCB,
                  mCamera, mEyePos, mView, mTimer, mCommandList, completedValue,
                  waitValue, copyCount, signalled >>

\* Update, up to the wait for the fence of the frame resource it selects.
\* The frame loop ticks the timer before it calls Update.
UpdateBegin ==
  /\ pc = "idle"
  /\ mCurrentFence < MaxFence
  /\ mTimer' = mTimer + DeltaTime
  /\ mEyePos' = EyePosOf(mCamera)
  /\ mView' = XMMatrixLookAtLH(mEyePos')
  /\ mCurrFrameResourceIndex' = NextFrameResourceIndex(mCurrFrameResourceIndex)
  /\ mCurrFrameResource' = mCurrFrameResourceIndex'
  /\ IF MustWait(mFrameResources[mCurrFrameResource'].Fence, completedValue)
     THEN /\ waitValue' = EventValue(mFrameResources[mCurrFrameResource'])
          /\ pc' = "waiting"
     ELSE /\ waitValue' = waitValue
          /\ pc' = "updating"
  /\ UNCHANGED << app, mFrameResources, mAllRitems, mOpaqueRitems, mRitemLayer,
                  mWavesRitem, wavesVertexBufferGPU, mMaterials, mWaves, t_base,
                  mMainPassCB, mCamera, mProj, mCommandList, mCommandQueue,
                  mCurrentFence, completedValue, mCurrBackBuffer, copyCount,
                  signalled, messages >>

\* WaitForSingleObject(eventHandle, INFINITE) returns.
UpdateWaitReturn ==
  /\ pc = "waiting"
  /\ EventSet(completedValue, waitValue)
  /\ pc' = "updating"
  /\ UNCHANGED << app, mFrameResources, mCurrFrameResource, mCurrFrameResourceIndex,
                  mAllRitems, mOpaqueRitems, mRitemLayer, mWavesRitem,
                  wavesVertexBufferGPU, mMaterials, mWaves, t_base, mMainPassCB,
                  mCamera, mEyePos, mView, mProj, mTimer, mCommandList,
                  mCommandQueue, mCurrentFence, completedValue, waitValue,
                  mCurrBackBuffer, copyCount, signalled, messages >>

\* The rest of Update: AnimateMaterials, UpdateObjectCBs, UpdateMaterialCBs,
\* UpdateMainPassCB and, in TreeBillboardsApp, UpdateWaves.
UpdateBuffers ==
  /\ pc = "updating"
  /\ pc' = "draw"
  /\ \E f \in {mCurrFrameResource} :
     \E animated \in {AnimateMaterials(app, mMaterials, DeltaTime)} :
     \E obj \in {UpdateObjectCBs(mAllRitems, mFrameResources[f].ObjectCB,
                                 copyCount["ObjectCB"][f])} :
     \E mat \in {UpdateMaterialCBs(animated, mFrameResources[f].MaterialCB,
                                   copyCount["MaterialCB"][f])} :
     LET pass == MainPassConstants(mView, mProj, mEyePos, mTimer, DeltaTime)
         due == WavesDisturbDue(mTimer, t_base)
         waves == IF app = "Tree" THEN WavesAdvanced(mWaves, mTimer, t_base) ELSE mWaves
     IN  /\ mAllRitems' = obj.items
         /\ mMaterials' = mat.mats
         /\ mMainPassCB' = pass
         /\ mWaves' = waves
         /\ t_base' = IF app = "Tree" /\ due THEN t_base + 1 ELSE t_base
         /\ wavesVertexBufferGPU' = IF app = "Tree" THEN WavesVBOf(f)
                                    ELSE wavesVertexBufferGPU
         /\ mFrameResources' =
              [mFrameResources EXCEPT
                 ![f] = [@ EXCEPT !.ObjectCB = obj.cb,
                                  !.MaterialCB = mat.cb,
                                  !.PassCB = CopyData(@, 0, pass),
                                  !.WavesVB = IF app = "Tree"
                                              THEN UpdateWavesVB(@, waves) ELSE @]]
         /\ copyCount' = [copyCount EXCEPT !["ObjectCB"][f] = obj.count,
                                           !["MaterialCB"][f] = mat.count]
  /\ UNCHANGED << app, mCurrFrameResource, mCurrFrameResourceIndex, mOpaqueRitems,
                  mRitemLayer, mWavesRitem, mCamera, mEyePos, mView, mProj, mTimer,
                  mCommandList, mCommandQueue, mCurrentFence, completedValue,
                  waitValue, mCurrBackBuffer, signalled, messages >>

\* Draw: reset the allocator and the command list of the current frame
\* resource, record the frame, close and submit it, present, and signal
\* the next fence value.
Draw ==
  /\ pc = "draw"
  /\ pc' = "idle"
  /\ LET f == mCurrFrameResource
         recorded ==
           IF app = "Shapes"
           THEN ShapesRecorded(f, mCurrBackBuffer, mOpaqueRitems, mAllRitems, mMaterials)
           ELSE TreeRecorded(f, mCurrBackBuffer, mRitemLayer, mAllRitems, mMaterials,
                             mWavesRitem, wavesVertexBufferGPU)
     IN  /\ mCommandList' = [state |-> "closed", alloc |-> f, cmds |-> recorded]
         /\ mCommandQueue' = Append(Append(mCommandQueue, ExecuteCommandLists(f)),
                                    Signal(mCurrentFence + 1))
         /\ mFrameResources' = [mFrameResources EXCEPT ![f].Fence = mCurrentFence + 1]
  /\ mCurrBackBuffer' = (mCurrBackBuffer + 1) % SwapChainBufferCount
  /\ mCurrentFence' = mCurrentFence + 1
  /\ signalled' = signalled \cup {mCurrentFence + 1}
  /\ UNCHANGED << app, mCurrFrameResource, mCurrFrameResourceIndex, mAllRitems,
                  mOpaqueRitems, mRitemLayer, mWavesRitem, wavesVertexBufferGPU,
                  mMaterials, mWaves, t_base, mMainPassCB, mCamera, mEyePos, mView,
                  mProj, mTimer, completedValue, waitValue, copyCount, messages >>

\* ---------------------------------------------------------------------
\* The GPU
\* ---------------------------------------------------------------------

\* The GPU finishes the command list at the head of the queue.
GpuExecute ==
  /\ mCommandQueue # <<>>
  /\ Head(mCommandQueue).kind = "ExecuteCommandLists"
  /\ mCommandQueue' = Tail(mCommandQueue)
  /\ UNCHANGED << app, pc, mFrameResources, mCurrFrameResource,
                  mCurrFrameResourceIndex, mAllRitems, mOpaqueRitems, mRitemLayer,
                  mWavesRitem, wavesVertexBufferGPU, mMaterials, mWaves, t_base,
                  mMainPassCB, mCamera, mEyePos, mView, mProj, mTimer, mCommandList,
                  mCurrentFence, completedValue, waitValue, mCurrBackBuffer,
                  copyCount, signalled, messages >>

\* The GPU reaches a Signal: the fence takes its value.
GpuSignal ==
  /\ mCommandQueue # <<>>
  /\ Head(mCommandQueue).kind = "Signal"
  /\ completedValue' = Head(mCommandQueue).value
  /\ mCommandQueue' = Tail(mCommandQueue)
  /\ UNCHANGED << app, pc, mFrameResources, mCurrFrameResource,
                  mCurrFrameResourceIndex, mAllRitems, mOpaqueRitems, mRitemLayer,
                  mWavesRitem, wavesVertexBufferGPU, mMaterials, mWaves, t_base,
                  mMainPassCB, mCamera, mEyePos, mView, mProj, mTimer, mCommandList,
                  mCurrentFence, waitValue, mCurrBackBuffer, copyCount, signalled, messages >>

Next ==
  \/ Initialize
  \/ FlushReturn
  \/ OnMouseMove
  \/ OnResize
  \/ UpdateBegin
  \/ UpdateWaitReturn
  \/ UpdateBuffers
  \/ Draw
  \/ GpuExecute
  \/ GpuSignal

Spec == Init /\ [][Next]_vars

\* The frame loop keeps running and the GPU executes what is queued.
FairSpec ==
  /\ Spec
  /\ WF_vars(FlushReturn)
  /\ WF_vars(UpdateWaitReturn)
  /\ WF_vars(UpdateBuffers)
  /\ WF_vars(Draw)
  /\ WF_vars(GpuExecute)
  /\ WF_vars(GpuSignal)

\* ---------------------------------------------------------------------
\* Properties
\* ---------------------------------------------------------------------

\* Frames begun so far (the timer ticks once for each).
Frames == mTimer \div DeltaTime

\* Command lists recorded with frame resource f that the GPU has not finished.
Pending(f) ==
  {i \in DOMAIN mCommandQueue :
     mCommandQueue[i].kind = "ExecuteCommandLists" /\ mCommandQueue[i].alloc = f}

\* C1: whenever the CPU is about to write the buffers of the current frame
\* resource (Update past its wait) or to reset its command allocator (Draw),
\* the fence has reached the Fence value stored in that frame resource and
\* no command list recorded with it is still in the queue.
C1_WritesAfterGpuDone ==
  pc \in {"updating", "draw"} =>
    /\ completedValue >= mFrameResources[mCurrFrameResource].Fence
    /\ Pending(mCurrFrameResource) = {}

\* The CPU writes a frame resource that was submitted before while the GPU
\* is still busy with later frames.
C1_Witness ==
  /\ pc = "updating"
  /\ mFrameResources[mCurrFrameResource].Fence # 0
  /\ mCommandQueue # <<>>

\* The constants a draw call of the last recorded command list reads.
ObjectCBRead(cmd) == mFrameResources[cmd.objCB[1]].ObjectCB[cmd.objCB[2]]

MaterialCBRead(cmd) == mFrameResources[cmd.matCB[1]].MaterialCB[cmd.matCB[2]]

DrawCalls ==
  {i \in DOMAIN mCommandList.cmds : mCommandList.cmds[i].op = "DrawIndexedInstanced"}

\* C2: at every Draw the constant buffers of the current frame resource are
\* up to date: the object-CB slot ObjCBIndex of every render item holds its
\* current World/TexTransform, the material-CB slot MatCBIndex of every
\* material holds its current constants, pass-CB slot 0 holds the pass
\* constants computed by this frame's Update (its time, camera and
\* projection), no slot read is unwritten, and the draw calls Draw records
\* read exactly these slots.
C2_ConstantBuffersCurrentAtDraw ==
  /\ pc = "draw" =>
       LET fr == mFrameResources[mCurrFrameResource]
       IN  /\ \A k \in DOMAIN mAllRitems :
                 /\ fr.ObjectCB[mAllRitems[k].ObjCBIndex] # Unwritten
                 /\ fr.ObjectCB[mAllRitems[k].ObjCBIndex] = ObjectConstantsOf(mAllRitems[k])
           /\ \A n \in DOMAIN mMaterials :
                 /\ fr.MaterialCB[mMaterials[n].MatCBIndex] # Unwritten
                 /\ fr.MaterialCB[mMaterials[n].MatCBIndex] = MaterialConstantsOf(mMaterials[n])
           /\ fr.PassCB[0] = mMainPassCB
           /\ fr.PassCB[0] =
                MainPassConstants(XMMatrixLookAtLH(EyePosOf(mCamera)), mProj,
                                  EyePosOf(mCamera), mTimer, DeltaTime)
  /\ (pc = "idle" /\ mCurrFrameResource # nullptr) =>
       /\ mCommandList.alloc = mCurrFrameResource
       /\ \A i \in DrawCalls :
            LET cmd == mCommandList.cmds[i]
                ri == ItemOf(mAllRitems, cmd.item)
            IN  /\ cmd.objCB[1] = mCurrFrameResource
                /\ cmd.matCB[1] = mCurrFrameResource
                /\ ObjectCBRead(cmd) = ObjectConstantsOf(ri)
                /\ MaterialCBRead(cmd) = MaterialConstantsOf(mMaterials[ri.Mat])
       /\ \E i \in DOMAIN mCommandList.cmds :
            /\ mCommandList.cmds[i].op = "SetPassCB"
            /\ mCommandList.cmds[i].passCB = <<mCurrFrameResource, 0>>

\* A Draw of a frame resource used before, after the camera has moved and
\* (in TreeBillboardsApp) the water material has been animated.
C2_Witness ==
  /\ pc = "draw"
  /\ mFrameResources[mCurrFrameResource].Fence # 0
  /\ mCamera # InitialCamera(app)
  /\ \A n \in DOMAIN mMaterials : mMaterials[n].NumFramesDirty < gNumFrameResources


\* The frame resource of the frame before the current one.
PrevFrameResourceIndex(i) == (i + gNumFrameResources - 1) % gNumFrameResources

\* C3: Update blocks only on the fence of the frame that last used the
\* frame resource it has selected, the frame submitted gNumFrameResources
\* frames earlier (whose pass constants the frame resource still holds),
\* and never on a frame submitted more recently: the other frame
\* resources carry larger fence values, and the wait can return as soon as
\* the fence has reached the selected frame resource's own value.
C3_WaitsOnlyForOwnFrameResource ==
  pc = "waiting" =>
    LET fr == mFrameResources[mCurrFrameResource]
    IN  /\ waitValue = fr.Fence
        /\ fr.PassCB[0].TotalTime = mTimer - gNumFrameResources * DeltaTime
        /\ \A f \in DOMAIN mFrameResources :
             f # mCurrFrameResource => mFrameResources[f].Fence > waitValue
        /\ completedValue >= fr.Fence => ENABLED UpdateWaitReturn

\* Update has waited for its own frame resource and is now updating frame n
\* while the GPU has not completed frame n-1.
C3_Witness ==
  /\ pc = "updating"
  /\ waitValue # 0
  /\ waitValue = mFrameResources[mCurrFrameResource].Fence
  /\ mFrameResources[PrevFrameResourceIndex(mCurrFrameResource)].Fence # 0
  /\ completedValue < mFrameResources[PrevFrameResourceIndex(mCurrFrameResource)].Fence
  /\ Pending(PrevFrameResourceIndex(mCurrFrameResource)) # {}

\* C4 (as stated): from Initialize on there are gNumFrameResources frame
\* resources, the index is in 0..2 and mCurrFrameResource is
\* mFrameResources[mCurrFrameResourceIndex].
C4_PointerAlwaysAtIndex ==
  pc # "constructed" =>
    /\ DOMAIN mFrameResources = 0..(gNumFrameResources - 1)
    /\ mCurrFrameResourceIndex \in 0..(gNumFrameResources - 1)
    /\ mCurrFrameResource = mCurrFrameResourceIndex

\* The frames whose pass constants the frame resources hold once the
\* current frame's Update has written its own.
FrameStampsDistinct ==
  \A k \in 0..(gNumFrameResources - 1) :
    Frames > k =>
      mFrameResources[(mCurrFrameResourceIndex + gNumFrameResources - k)
                      % gNumFrameResources].PassCB[0].TotalTime
        = mTimer - k * DeltaTime

\* C4: the frame resources form a ring of gNumFrameResources entries: after
\* Initialize mFrameResources has 3 elements; the index is always in 0..2
\* and every Update advances it by one modulo 3 (1, 2, 0, ... from 0);
\* from the first Update on mCurrFrameResource is
\* mFrameResources[mCurrFrameResourceIndex] (it is nullptr before); any 3
\* consecutive frames use 3 different frame resources.
C4_FrameResourceRing ==
  /\ [](pc # "constructed" => DOMAIN mFrameResources = 0..(gNumFrameResources - 1))
  /\ [](mCurrFrameResourceIndex \in 0..(gNumFrameResources - 1))
  /\ [](mCurrFrameResourceIndex = Frames % gNumFrameResources)
  /\ [][mTimer' # mTimer =>
          mCurrFrameResourceIndex' = (mCurrFrameResourceIndex + 1) % gNumFrameResources]_vars
  /\ [][mTimer' = mTimer => mCurrFrameResourceIndex' = mCurrFrameResourceIndex]_vars
  /\ [](mCurrFrameResource = IF mTimer > 0 THEN mCurrFrameResourceIndex ELSE nullptr)
  /\ [](pc \in {"draw", "idle", "flushing"} => FrameStampsDistinct)

\* The ring has wrapped around: a frame after the third, back at index 1.
C4_Witness ==
  /\ pc = "draw"
  /\ Frames > gNumFrameResources
  /\ mCurrFrameResourceIndex = 1
  /\ mCurrFrameResource = 1

\* The draw calls of the last recorded command list that draw the waves.
WavesDrawCalls == {i \in DrawCalls : mCommandList.cmds[i].item = mWavesRitem}

\* C5: in TreeBillboardsApp, after every Update the WavesVB of the current
\* frame resource has exactly the elements 0..VertexCount-1, each rewritten
\* from the wave solution this Update computed, and the waves geometry's
\* VertexBufferGPU refers to that WavesVB; the following Draw records one
\* draw of the waves, from the WavesVB of the frame resource it draws.
C5_WavesVBWrittenAndBound ==
  app = "Tree" =>
    /\ pc = "draw" =>
         LET fr == mFrameResources[mCurrFrameResource]
         IN  /\ DOMAIN fr.WavesVB = 0..(VertexCount - 1)
             /\ mWaves.steps = Frames
             /\ \A i \in 0..(VertexCount - 1) : fr.WavesVB[i] = WaveVertex(mWaves, i)
             /\ wavesVertexBufferGPU = WavesVBOf(mCurrFrameResource)
    /\ (pc = "idle" /\ mTimer > 0) =>
         /\ Cardinality(WavesDrawCalls) = 1
         /\ \A i \in WavesDrawCalls :
              /\ mCommandList.cmds[i].vertexBuffer = WavesVBOf(mCommandList.alloc)
              /\ mCommandList.cmds[i].objCB[1] = mCommandList.alloc
         /\ \A f \in DOMAIN mFrameResources :
              DOMAIN mFrameResources[f].WavesVB = 0..(VertexCount - 1)

\* The waves are drawn from a frame resource used before, after a
\* disturbance of the wave solution.
C5_Witness ==
  /\ app = "Tree"
  /\ pc = "idle"
  /\ mTimer > gNumFrameResources * DeltaTime
  /\ mWaves.disturbs > 0
  /\ mCommandList.alloc = mCurrFrameResource
  /\ \A i \in 0..(VertexCount - 1) :
       mFrameResources[mCurrFrameResource].WavesVB[i] = WaveVertex(mWaves, i)

\* The number of elements of the pointer list s that point to the render
\* item called name.
Occurrences(s, name) == Cardinality({i \in DOMAIN s : s[i] = name})

\* The number of draw calls of the last recorded command list for an item.
DrawCallsOf(name) == Cardinality({i \in DrawCalls : mCommandList.cmds[i].item = name})

\* C6: every render item owned by mAllRitems is drawn exactly once per
\* Draw.  In ShapesApp mOpaqueRitems holds each element of mAllRitems
\* exactly once; in TreeBillboardsApp each element of mAllRitems is in
\* exactly one of the four layer lists, once, and every pointer of a layer
\* list is owned by mAllRitems; the command list Draw records holds one
\* draw call for each render item and no other.
C6_EveryItemDrawnOnce ==
  pc # "constructed" =>
    LET names == {mAllRitems[k].Name : k \in DOMAIN mAllRitems}
    IN  /\ Cardinality(names) = Len(mAllRitems)
        /\ app = "Shapes" =>
             /\ Len(mOpaqueRitems) = Len(mAllRitems)
             /\ \A n \in names : Occurrences(mOpaqueRitems, n) = 1
        /\ app = "Tree" =>
             /\ \A n \in names :
                  /\ Cardinality({l \in Range(Layers) : Occurrences(mRitemLayer[l], n) > 0}) = 1
                  /\ \A l \in Range(Layers) : Occurrences(mRitemLayer[l], n) <= 1
             /\ \A l \in Range(Layers) : Range(mRitemLayer[l]) \subseteq names
        /\ (pc = "idle" /\ mTimer > 0) =>
             /\ \A n \in names : DrawCallsOf(n) = 1
             /\ Cardinality(DrawCalls) = Len(mAllRitems)

\* A frame has been recorded: its command list holds a draw call of the
\* first and of the last render item built.
C6_Witness ==
  /\ pc = "idle"
  /\ mTimer > 0
  /\ DrawCallsOf(mAllRitems[1].Name) = 1
  /\ DrawCallsOf(mAllRitems[Len(mAllRitems)].Name) = 1
  /\ Cardinality(DrawCalls) = Len(mAllRitems)

\* The Updates that have run UpdateObjectCBs and UpdateMaterialCBs so far.
UpdatesDone == IF pc \in {"waiting", "updating"} THEN Frames - 1 ELSE Frames

\* How many of them had selected frame resource f.
UpdatesOf(f) == Cardinality({n \in 1..UpdatesDone : n % gNumFrameResources = f})

\* The materials AnimateMaterials changes (and marks dirty) in every Update.
Animated(n) == AnimateMaterials(app, mMaterials, DeltaTime)[n] # mMaterials[n]

\* NumFramesDirty of an element marked dirty once, n Updates ago.
DirtyAfter(n) == IF n >= gNumFrameResources THEN 0 ELSE gNumFrameResources - n

\* C7 (as stated): once gNumFrameResources Updates have followed the change
\* that set NumFramesDirty to gNumFrameResources, every frame resource has
\* received the constants exactly once and NumFramesDirty is 0 again, for
\* every render item and every material.
C7_EveryCounterReturnsToZero ==
  UpdatesDone >= gNumFrameResources =>
    /\ \A k \in DOMAIN mAllRitems : mAllRitems[k].NumFramesDirty = 0
    /\ \A n \in DOMAIN mMaterials :
         /\ mMaterials[n].NumFramesDirty = 0
         /\ \A f \in DOMAIN mFrameResources :
              copyCount["MaterialCB"][f][mMaterials[n].MatCBIndex] = 1

\* C7: NumFramesDirty is in 0..gNumFrameResources in every reachable state.
\* An element marked dirty once (every render item, every material that is
\* not animated) is written to each frame resource by the first Update that
\* selects it, once, and its NumFramesDirty is 0 from the third Update on.
\* TreeBillboardsApp's water material is changed and marked dirty in every
\* Update: every Update writes it to the frame resource it selects and
\* leaves its NumFramesDirty at gNumFrameResources - 1.
C7_DirtyFlagPropagation ==
  pc # "constructed" =>
    /\ \A k \in DOMAIN mAllRitems :
         LET e == mAllRitems[k]
         IN  /\ e.NumFramesDirty \in 0..gNumFrameResources
             /\ e.NumFramesDirty = DirtyAfter(UpdatesDone)
             /\ \A f \in DOMAIN mFrameResources :
                  /\ copyCount["ObjectCB"][f][e.ObjCBIndex] = IF UpdatesOf(f) > 0 THEN 1 ELSE 0
                  /\ UpdatesOf(f) > 0 =>
                       mFrameResources[f].ObjectCB[e.ObjCBIndex] = ObjectConstantsOf(e)
    /\ \A n \in DOMAIN mMaterials :
         LET mat == mMaterials[n]
         IN  /\ mat.NumFramesDirty \in 0..gNumFrameResources
             /\ ~Animated(n) =>
                  /\ mat.NumFramesDirty = DirtyAfter(UpdatesDone)
                  /\ \A f \in DOMAIN mFrameResources :
                       /\ copyCount["MaterialCB"][f][mat.MatCBIndex]
                            = IF UpdatesOf(f) > 0 THEN 1 ELSE 0
                       /\ UpdatesOf(f) > 0 =>
                            mFrameResources[f].MaterialCB[mat.MatCBIndex]
                              = MaterialConstantsOf(mat)
             /\ Animated(n) =>
                  /\ UpdatesDone > 0 => mat.NumFramesDirty = gNumFrameResources - 1
                  /\ \A f \in DOMAIN mFrameResources :
                       copyCount["MaterialCB"][f][mat.MatCBIndex] = UpdatesOf(f)

\* More than gNumFrameResources Updates have run in TreeBillboardsApp: the
\* render items and the grass material are clean, the water is dirty.
C7_Witness ==
  /\ app = "Tree"
  /\ pc = "draw"
  /\ UpdatesDone > gNumFrameResources
  /\ mAllRitems[1].NumFramesDirty = 0
  /\ mMaterials["grass"].NumFramesDirty = 0
  /\ mMaterials["water"].NumFramesDirty = gNumFrameResources - 1
  /\ copyCount["MaterialCB"][mCurrFrameResource][mMaterials["water"].MatCBIndex] = 2

\* C8: Update blocks exactly when the frame resource it has just selected
\* has a non-zero Fence that the fence's completed value is below; when the
\* wait returns the completed value has reached that Fence; a frame
\* resource never submitted (Fence = 0) causes no wait, so none of the first
\* gNumFrameResources Updates blocks.
C8_BlocksExactlyWhenFencePending ==
  /\ [][(pc = "idle" /\ pc' \in {"waiting", "updating"}) =>
          (pc' = "waiting" <=>
             /\ mFrameResources'[mCurrFrameResource'].Fence # 0
             /\ completedValue' < mFrameResources'[mCurrFrameResource'].Fence)]_vars
  /\ [][(pc = "waiting" /\ pc' = "updating") =>
          completedValue' >= mFrameResources'[mCurrFrameResource'].Fence]_vars
  /\ [](pc = "waiting" =>
          /\ mFrameResources[mCurrFrameResource].Fence # 0
          /\ Frames > gNumFrameResources)
  /\ [](pc = "updating" =>
          \/ mFrameResources[mCurrFrameResource].Fence = 0
          \/ completedValue >= mFrameResources[mCurrFrameResource].Fence)

\* Update is blocked: the selected frame resource was submitted and the
\* fence has not reached its value.
C8_Witness ==
  /\ pc = "waiting"
  /\ mFrameResources[mCurrFrameResource].Fence # 0
  /\ completedValue < mFrameResources[mCurrFrameResource].Fence

\* The frames submitted by Draw whose fence value the GPU has not reached.
InFlight == Cardinality({v \in signalled : completedValue < v})

\* C9: the CPU never runs more than gNumFrameResources frames ahead of the
\* GPU: at most gNumFrameResources submitted frames are not yet reached by
\* the fence, and at most gNumFrameResources - 1 while Update writes the
\* constant buffers (and until Draw submits the frame).
C9_FramesAheadBounded ==
  /\ InFlight <= gNumFrameResources
  /\ pc \in {"updating", "draw"} => InFlight <= gNumFrameResources - 1

\* Update had to wait with gNumFrameResources frames in flight and now
\* writes the constant buffers with gNumFrameResources - 1 in flight.
C9_Witness ==
  /\ pc = "updating"
  /\ waitValue = mFrameResources[mCurrFrameResource].Fence
  /\ waitValue # 0
  /\ InFlight = gNumFrameResources - 1

\* C10: the frame loop cannot deadlock on the fence.  Every value Update
\* waits for was signalled on the queue by an earlier Draw: it is at most
\* mCurrentFence and either the fence has reached it or its Signal is
\* queued.  With a GPU that executes what is queued, every wait of Update
\* returns and every frame begun is submitted.
C10_NoDeadlockOnFence ==
  /\ [](pc = "waiting" =>
          /\ waitValue \in signalled
          /\ waitValue <= mCurrentFence
          /\ \/ completedValue >= waitValue
             \/ \E i \in DOMAIN mCommandQueue : mCommandQueue[i] = Signal(waitValue))
  /\ (pc = "waiting" ~> pc = "updating")
  /\ (pc \in {"waiting", "updating", "draw"} ~> pc = "idle")

\* Update is blocked on a value whose Signal the GPU has not reached, with
\* command lists queued ahead of it.
C10_Witness ==
  /\ pc = "waiting"
  /\ completedValue < waitValue
  /\ Head(mCommandQueue).kind = "ExecuteCommandLists"
  /\ \E i \in DOMAIN mCommandQueue : mCommandQueue[i] = Signal(waitValue)
\* The Draws that have returned so far, and those that used frame resource f.
DrawsDone == IF pc \in {"waiting", "updating", "draw"} THEN Frames - 1 ELSE Frames

DrawsOf(f) == {n \in 1..DrawsDone : n % gNumFrameResources = f}

\* The fence values of the Signals in the command queue, in queue order.
QueuedSignals ==
  SelectSeq(mCommandQueue, LAMBDA c : c.kind = "Signal")

\* C11: fence bookkeeping.  Each Draw increments mCurrentFence by exactly
\* one, stores the new value in the Fence of the current frame resource
\* (and of no other) and passes the same value to Signal.  mCurrentFence
\* never decreases and the signalled values are strictly increasing; the
\* Fence of a frame resource is 0 exactly until the first Draw that uses
\* it; every stored Fence is at most mCurrentFence and was signalled; the
\* non-zero Fence values of different frame resources are different.
C11_FenceBookkeeping ==
  /\ [][(pc = "draw" /\ pc' = "idle") =>
          /\ mCurrentFence' = mCurrentFence + 1
          /\ mFrameResources'[mCurrFrameResource].Fence = mCurrentFence'
          /\ \A f \in DOMAIN mFrameResources :
               f # mCurrFrameResource =>
                 mFrameResources'[f].Fence = mFrameResources[f].Fence
          /\ mCommandQueue'[Len(mCommandQueue')].kind = "Signal"
          /\ mCommandQueue'[Len(mCommandQueue')].value = mCurrentFence'
          /\ signalled' = signalled \cup {mCurrentFence'}]_vars
  /\ [][mCurrentFence' >= mCurrentFence /\ completedValue' >= completedValue]_vars
  /\ [](\A i, j \in DOMAIN QueuedSignals :
          i < j => QueuedSignals[i].value < QueuedSignals[j].value)
  /\ [](\A i \in DOMAIN QueuedSignals :
          /\ completedValue < QueuedSignals[i].value
          /\ QueuedSignals[i].value <= mCurrentFence)
  /\ [](\A f \in DOMAIN mFrameResources :
          /\ mFrameResources[f].Fence = 0 <=> DrawsOf(f) = {}
          /\ mFrameResources[f].Fence <= mCurrentFence
          /\ mFrameResources[f].Fence # 0 => mFrameResources[f].Fence \in signalled
          /\ \A g \in DOMAIN mFrameResources :
               (f # g /\ mFrameResources[f].Fence # 0) =>
                 mFrameResources[f].Fence # mFrameResources[g].Fence)

\* A Draw has just stored and signalled a new value in a frame resource that
\* carried an older one, and all three frame resources carry a value.
C11_Witness ==
  /\ pc = "idle"
  /\ Frames > gNumFrameResources
  /\ mFrameResources[mCurrFrameResource].Fence = mCurrentFence
  /\ mCommandQueue # <<>>
  /\ mCommandQueue[Len(mCommandQueue)] = Signal(mCurrentFence)
  /\ \A f \in DOMAIN mFrameResources : mFrameResources[f].Fence # 0

\* ---------------------------------------------------------------------
\* The calls of Initialize and Draw, one by one
\* ---------------------------------------------------------------------

\* The commands Draw records in the current state.
Recorded ==
  IF app = "Shapes"
  THEN ShapesRecorded(mCurrFrameResource, mCurrBackBuffer, mOpaqueRitems,
                      mAllRitems, mMaterials)
  ELSE TreeRecorded(mCurrFrameResource, mCurrBackBuffer, mRitemLayer, mAllRitems,
                    mMaterials, mWavesRitem, wavesVertexBufferGPU)

Call(api) == [api |-> api]

\* Draw with Signal called before ExecuteCommandLists.
DrawCallSequenceSignalFirst(f, recorded) ==
  <<[api |-> "CommandAllocator::Reset", alloc |-> f],
    [api |-> "CommandList::Reset", alloc |-> f]>>
  \o [i \in DOMAIN recorded |-> [api |-> "Record", cmd |-> recorded[i]]]
  \o <<Call("Close"), Call("Present"), Call("AdvanceFence"), Call("Signal"),
       Call("ExecuteCommandLists")>>

\* The calls Draw makes on the allocator, the command list, the command
\* queue, the swap chain and the fence value, in the order of the source.
DrawCallSequence(f, recorded) ==
  <<[api |-> "CommandAllocator::Reset", alloc |-> f],
    [api |-> "CommandList::Reset", alloc |-> f]>>
  \o [i \in DOMAIN recorded |-> [api |-> "Record", cmd |-> recorded[i]]]
  \o <<Call("Close"), Call("ExecuteCommandLists"), Call("Present"),
       Call("AdvanceFence"), Call("Signal")>>

\* Initialize submitting the command list without closing it.
InitializeCallSequenceNoClose ==
  <<[api |-> "CommandList::Reset", alloc |-> mDirectCmdListAlloc],
    [api |-> "Record", cmd |-> Cmd("UploadGeometry")],
    Call("ExecuteCommandLists"), Call("FlushCommandQueue")>>

\* The calls of Initialize: the geometry uploads are recorded between Reset
\* and Close.
InitializeCallSequence ==
  <<[api |-> "CommandList::Reset", alloc |-> mDirectCmdListAlloc],
    [api |-> "Record", cmd |-> Cmd("UploadGeometry")],
    Call("Close"), Call("ExecuteCommandLists"), Call("FlushCommandQueue")>>

\* What the calls act on, before the first call of a handler; ok tells
\* that no call so far was made in a state that does not allow it.
CallState ==
  [list |-> mCommandList.state, alloc |-> mCommandList.alloc,
   cmds |-> mCommandList.cmds, queue |-> mCommandQueue, fence |-> mCurrentFence,
   frFence |-> 0, backBuffer |-> mCurrBackBuffer, ok |-> TRUE]

\* One call.  A command list is Reset only while closed, records and is
\* closed only while recording, and is submitted only while closed; an
\* allocator is reset only while no list records with it and none
\* recorded with it is queued.
ApplyCall(s, c) ==
  CASE c.api = "CommandAllocator::Reset" ->
         [s EXCEPT !.ok = /\ @
                          /\ ~(s.list = "recording" /\ s.alloc = c.alloc)
                          /\ \A i \in DOMAIN s.queue :
                               s.queue[i] # ExecuteCommandLists(c.alloc)]
    [] c.api = "CommandList::Reset" ->
         [s EXCEPT !.ok = @ /\ s.list = "closed", !.list = "recording",
                   !.alloc = c.alloc, !.cmds = <<>>]
    [] c.api = "Record" ->
         [s EXCEPT !.ok = @ /\ s.list = "recording", !.cmds = Append(@, c.cmd)]
    [] c.api = "Close" ->
         [s EXCEPT !.ok = @ /\ s.list = "recording", !.list = "closed"]
    [] c.api = "ExecuteCommandLists" ->
         [s EXCEPT !.ok = @ /\ s.list = "closed",
                   !.queue = Append(@, ExecuteCommandLists(s.alloc))]
    [] c.api = "Present" ->
         [s EXCEPT !.backBuffer = (@ + 1) % SwapChainBufferCount]
    [] c.api = "AdvanceFence" ->
         [s EXCEPT !.fence = @ + 1, !.frFence = s.fence + 1]
    [] c.api = "Signal" ->
         [s EXCEPT !.queue = Append(@, Signal(s.fence))]
    [] c.api = "FlushCommandQueue" ->
         [s EXCEPT !.fence = @ + 1, !.queue = Append(@, Signal(s.fence + 1))]

RECURSIVE RunCalls(_, _)
RunCalls(s, calls) ==
  IF calls = <<>> THEN s ELSE RunCalls(ApplyCall(s, Head(calls)), Tail(calls))

\* The positions of a call in a call sequence.
CallsAt(calls, api) == {i \in DOMAIN calls : calls[i].api = api}

\* The handler's step leaves what its calls, made one after the other, leave.
StepIsRunOf(r) ==
  /\ r.ok
  /\ mCommandList' = [state |-> r.list, alloc |-> r.alloc, cmds |-> r.cmds]
  /\ mCommandQueue' = r.queue
  /\ mCurrentFence' = r.fence
  /\ mCurrBackBuffer' = r.backBuffer


\* ---------------------------------------------------------------------
\* C12
\* ---------------------------------------------------------------------

\* C12: Within every Draw the command list is closed, then submitted with
\* ExecuteCommandLists, then the frame is presented, then the fence value
\* is advanced, then Signal is enqueued, each exactly once and every
\* recording call before Close; the Draw step leaves what these calls leave,
\* so the queue receives the frame's command list followed by the Signal
\* carrying the frame resource's new Fence.  Every queued command list of a
\* frame resource is followed by the Signal of that frame resource's Fence,
\* and once the fence has reached a frame resource's non-zero Fence no
\* command list recorded with that frame resource is queued any more.
C12_SignalAfterFrameCommands ==
  /\ [](pc = "draw" =>
          LET calls == DrawCallSequence(mCurrFrameResource, Recorded)
              at(api) == CHOOSE i \in CallsAt(calls, api) : TRUE
          IN  /\ \A api \in {"Close", "ExecuteCommandLists", "Present",
                             "AdvanceFence", "Signal"} :
                   Cardinality(CallsAt(calls, api)) = 1
              /\ \A i \in CallsAt(calls, "Record") : i < at("Close")
              /\ at("Close") < at("ExecuteCommandLists")
              /\ at("ExecuteCommandLists") < at("Present")
              /\ at("Present") < at("AdvanceFence")
              /\ at("AdvanceFence") < at("Signal"))
  /\ [][(pc = "draw" /\ pc' = "idle") =>
          LET r == RunCalls(CallState,
                            DrawCallSequence(mCurrFrameResource, Recorded))
          IN  /\ StepIsRunOf(r)
              /\ mFrameResources'[mCurrFrameResource].Fence = r.frFence
              /\ mCommandQueue' =
                   mCommandQueue \o
                     <<ExecuteCommandLists(mCurrFrameResource),
                       Signal(mFrameResources'[mCurrFrameResource].Fence)>>]_vars
  /\ [](\A i \in DOMAIN mCommandQueue :
          \A f \in DOMAIN mFrameResources :
            mCommandQueue[i] = ExecuteCommandLists(f) =>
              /\ i < Len(mCommandQueue)
              /\ mCommandQueue[i + 1] = Signal(mFrameResources[f].Fence))
  /\ [](\A f \in DOMAIN mFrameResources :
          (mFrameResources[f].Fence # 0
             /\ completedValue >= mFrameResources[f].Fence) =>
            Pending(f) = {})

\* A Draw has queued its command list and its Signal, the GPU has not
\* started on them, and the fence has reached the Fence of an earlier frame.
C12_Witness ==
  /\ pc = "idle" /\ Frames >= 2
  /\ Len(mCommandQueue) >= 2
  /\ mCommandQueue[Len(mCommandQueue) - 1] = ExecuteCommandLists(mCurrFrameResource)
  /\ mCommandQueue[Len(mCommandQueue)] = Signal(mFrameResources[mCurrFrameResource].Fence)
  /\ \E g \in DOMAIN mFrameResources :
       /\ g # mCurrFrameResource
       /\ mFrameResources[g].Fence # 0
       /\ completedValue >= mFrameResources[g].Fence
       /\ Pending(g) = {}


\* ---------------------------------------------------------------------
\* C13
\* ---------------------------------------------------------------------

\* The materials as UpdateMaterialCBs finds them: Update calls
\* AnimateMaterials before it.
MaterialsAtUpdateMaterialCBs == AnimateMaterials(app, mMaterials, DeltaTime)

\* C13: in every Update, with f the current frame resource: a render item
\* whose NumFramesDirty is 0 at UpdateObjectCBs keeps its counter, and its
\* element of f's object constant buffer keeps its contents and is not
\* written; a render item whose NumFramesDirty is positive has its element
\* written and its counter decremented by exactly one; an element is
\* written only if a dirty render item carries its index, once per such
\* item.  The same holds for the materials, as they are at
\* UpdateMaterialCBs, and f's material constant buffer.  The constant
\* buffers of the other frame resources are not written.
C13_OnlyDirtyConstantsWritten ==
  [][(pc = "updating" /\ pc' = "draw") =>
       LET f == mCurrFrameResource
           mats == MaterialsAtUpdateMaterialCBs
       IN  /\ \A k \in DOMAIN mAllRitems :
                LET e == mAllRitems[k]
                    i == e.ObjCBIndex
                IN  /\ e.NumFramesDirty = 0 =>
                         /\ mAllRitems'[k] = e
                         /\ mFrameResources'[f].ObjectCB[i] = mFrameResources[f].ObjectCB[i]
                         /\ copyCount'["ObjectCB"][f][i] = copyCount["ObjectCB"][f][i]
                    /\ e.NumFramesDirty > 0 =>
                         /\ mAllRitems'[k] = [e EXCEPT !.NumFramesDirty = @ - 1]
                         /\ copyCount'["ObjectCB"][f][i] > copyCount["ObjectCB"][f][i]
                         /\ \E d \in DOMAIN mAllRitems :
                              /\ mAllRitems[d].NumFramesDirty > 0
                              /\ mAllRitems[d].ObjCBIndex = i
                              /\ mFrameResources'[f].ObjectCB[i] =
                                   ObjectConstantsOf(mAllRitems[d])
           /\ \A i \in DOMAIN copyCount["ObjectCB"][f] :
                copyCount'["ObjectCB"][f][i] =
                  copyCount["ObjectCB"][f][i]
                    + Cardinality({k \in DOMAIN mAllRitems :
                                     /\ mAllRitems[k].NumFramesDirty > 0
                                     /\ mAllRitems[k].ObjCBIndex = i})
           /\ \A n \in DOMAIN mats :
                LET i == mats[n].MatCBIndex
                IN  /\ mats[n].NumFramesDirty = 0 =>
                         /\ mMaterials'[n] = mats[n]
                         /\ mFrameResources'[f].MaterialCB[i] =
                              mFrameResources[f].MaterialCB[i]
                         /\ copyCount'["MaterialCB"][f][i] = copyCount["MaterialCB"][f][i]
                    /\ mats[n].NumFramesDirty > 0 =>
                         /\ mMaterials'[n] = [mats[n] EXCEPT !.NumFramesDirty = @ - 1]
                         /\ mFrameResources'[f].MaterialCB[i] = MaterialConstantsOf(mats[n])
                         /\ copyCount'["MaterialCB"][f][i] =
                              copyCount["MaterialCB"][f][i] + 1
           /\ \A i \in DOMAIN copyCount["MaterialCB"][f] :
                copyCount'["MaterialCB"][f][i] # copyCount["MaterialCB"][f][i] =>
                  \E n \in DOMAIN mats :
                    mats[n].NumFramesDirty > 0 /\ mats[n].MatCBIndex = i
           /\ \A g \in DOMAIN mFrameResources :
                g # f =>
                  /\ mFrameResources'[g].ObjectCB = mFrameResources[g].ObjectCB
                  /\ mFrameResources'[g].MaterialCB = mFrameResources[g].MaterialCB
                  /\ copyCount'["ObjectCB"][g] = copyCount["ObjectCB"][g]
                  /\ copyCount'["MaterialCB"][g] = copyCount["MaterialCB"][g]]_vars

\* The Update of the fourth frame has run: the render items and all
\* materials but the water were clean and their elements of the first
\* frame resource still carry one write; the animated water was dirty, was
\* written a second time and its counter went from 3 to 2.
C13_Witness ==
  /\ app = "Tree" /\ pc = "draw" /\ Frames = gNumFrameResources + 1
  /\ \A k \in DOMAIN mAllRitems :
       /\ mAllRitems[k].NumFramesDirty = 0
       /\ copyCount["ObjectCB"][mCurrFrameResource][mAllRitems[k].ObjCBIndex] = 1
  /\ mMaterials["water"].NumFramesDirty = gNumFrameResources - 1
  /\ copyCount["MaterialCB"][mCurrFrameResource][mMaterials["water"].MatCBIndex] = 2
  /\ \E n \in DOMAIN mMaterials :
       /\ mMaterials[n].NumFramesDirty = 0
       /\ copyCount["MaterialCB"][mCurrFrameResource][mMaterials[n].MatCBIndex] = 1


\* ---------------------------------------------------------------------
\* C14
\* ---------------------------------------------------------------------

\* The states of the command list after each call of a call sequence made
\* from the current state, the state before the first call included.
ListStatesDuring(calls) ==
  [n \in 0..Len(calls) |-> RunCalls(CallState, SubSeq(calls, 1, n)).list]

\* In a call sequence the command list is Reset exactly once and closed
\* exactly once, every recording call lies between the two, and every
\* submission comes after Close.
ResetRecordCloseExecute(calls) ==
  /\ Cardinality(CallsAt(calls, "CommandList::Reset")) = 1
  /\ Cardinality(CallsAt(calls, "Close")) = 1
  /\ CallsAt(calls, "Record") # {}
  /\ CallsAt(calls, "ExecuteCommandLists") # {}
  /\ \A r \in CallsAt(calls, "CommandList::Reset") :
       \A c \in CallsAt(calls, "Close") :
         /\ \A i \in CallsAt(calls, "Record") : r < i /\ i < c
         /\ \A x \in CallsAt(calls, "ExecuteCommandLists") : c < x

\* C14: between two handlers the command list is closed.  Initialize and
\* every Draw Reset it once, while it is closed, make every recording call
\* while it is recording, Close it while it is recording and submit it
\* while it is closed; during the calls the list goes from closed to
\* recording at Reset and back to closed at Close and changes at no other
\* call, and the step leaves it closed.
C14_CommandListLifecycle ==
  /\ [](mCommandList.state = "closed")
  /\ [](pc = "constructed" =>
          /\ ResetRecordCloseExecute(InitializeCallSequence)
          /\ RunCalls(CallState, InitializeCallSequence).ok)
  /\ [](pc = "draw" =>
          LET calls == DrawCallSequence(mCurrFrameResource, Recorded)
              during == ListStatesDuring(calls)
          IN  /\ ResetRecordCloseExecute(calls)
              /\ RunCalls(CallState, calls).ok
              /\ \A n \in 1..Len(calls) :
                   /\ calls[n].api = "CommandList::Reset" =>
                        during[n - 1] = "closed" /\ during[n] = "recording"
                   /\ calls[n].api = "Close" =>
                        during[n - 1] = "recording" /\ during[n] = "closed"
                   /\ calls[n].api = "Record" => during[n - 1] = "recording"
                   /\ calls[n].api = "ExecuteCommandLists" => during[n - 1] = "closed"
                   /\ calls[n].api \notin {"CommandList::Reset", "Close"} =>
                        during[n] = during[n - 1])
  /\ [][(pc = "constructed" /\ pc' = "flushing") =>
          StepIsRunOf(RunCalls(CallState, InitializeCallSequence))]_vars
  /\ [][(pc = "draw" /\ pc' = "idle") =>
          /\ StepIsRunOf(RunCalls(CallState,
                                  DrawCallSequence(mCurrFrameResource, Recorded)))
          /\ mCommandList'.state = "closed"
          /\ mCommandList'.cmds = Recorded
          /\ mCommandQueue'[Len(mCommandQueue') - 1] =
               ExecuteCommandLists(mCommandList'.alloc)]_vars

\* The second Draw or a later one has returned: the list was Reset from
\* the closed state the Draw before left it in, holds the commands of
\* this frame, is closed and is queued.
C14_Witness ==
  /\ pc = "idle" /\ Frames >= 2
  /\ mCommandList.state = "closed"
  /\ mCommandList.alloc = mCurrFrameResource
  /\ Len(mCommandList.cmds) > 1
  /\ Pending(mCurrFrameResource) # {}


\* ---------------------------------------------------------------------
\* C15
\* ---------------------------------------------------------------------

\* The barriers on back buffer b among the first n commands of cmds.
BarriersOn(cmds, b, n) ==
  {i \in 1..n : cmds[i].op = "ResourceBarrier" /\ cmds[i].buffer = b}

\* The state of back buffer b after the first n commands of cmds, when it
\* is in state PRESENT before the first: the state the last barrier left.
BackBufferStateAfter(cmds, b, n) ==
  IF BarriersOn(cmds, b, n) = {} THEN "PRESENT"
  ELSE cmds[CHOOSE i \in BarriersOn(cmds, b, n) :
              \A j \in BarriersOn(cmds, b, n) : j <= i].after

\* The commands that clear the back buffer, bind it or draw to it.
RenderTargetUses(cmds) ==
  {i \in DOMAIN cmds :
     cmds[i].op \in {"ClearRenderTargetView", "OMSetRenderTargets",
                     "DrawIndexedInstanced"}}

\* A recorded frame keeps to the protocol of back buffer b: its barriers
\* are exactly PRESENT -> RENDER_TARGET and then RENDER_TARGET -> PRESENT
\* on b, each applied to the state it names, every clear, bind and draw
\* lies between the two and targets b, the second barrier is the last
\* command, and the frame leaves b in PRESENT.
KeepsBackBufferProtocol(cmds, b) ==
  /\ \A i \in DOMAIN cmds :
       cmds[i].op = "ResourceBarrier" =>
         /\ cmds[i].buffer = b
         /\ cmds[i].before = BackBufferStateAfter(cmds, b, i - 1)
  /\ \E first, last \in DOMAIN cmds :
       /\ first < last
       /\ BarriersOn(cmds, b, Len(cmds)) = {first, last}
       /\ cmds[first] = Barrier(b, "PRESENT", "RENDER_TARGET")
       /\ cmds[last] = Barrier(b, "RENDER_TARGET", "PRESENT")
       /\ last = Len(cmds)
       /\ \A i \in RenderTargetUses(cmds) : first < i /\ i < last
  /\ \A i \in RenderTargetUses(cmds) :
       /\ BackBufferStateAfter(cmds, b, i - 1) = "RENDER_TARGET"
       /\ cmds[i].op # "DrawIndexedInstanced" => cmds[i].buffer = b
  /\ \E i \in RenderTargetUses(cmds) : cmds[i].op = "DrawIndexedInstanced"
  /\ BackBufferStateAfter(cmds, b, Len(cmds)) = "PRESENT"

\* C15: the commands every Draw records keep to the protocol of the
\* current back buffer, and the recorded frame the Draw leaves in the
\* command list is that sequence, so it leaves the back buffer in PRESENT;
\* every Draw advances mCurrBackBuffer by one modulo SwapChainBufferCount,
\* as the Present call of its call sequence does, and mCurrBackBuffer
\* stays in 0..SwapChainBufferCount-1.
C15_BackBufferProtocol ==
  /\ [](pc = "draw" => KeepsBackBufferProtocol(Recorded, mCurrBackBuffer))
  /\ [][(pc = "draw" /\ pc' = "idle") =>
          /\ mCommandList'.cmds = Recorded
          /\ KeepsBackBufferProtocol(mCommandList'.cmds, mCurrBackBuffer)
          /\ mCurrBackBuffer' = (mCurrBackBuffer + 1) % SwapChainBufferCount
          /\ mCurrBackBuffer' # mCurrBackBuffer
          /\ mCurrBackBuffer' =
               RunCalls(CallState,
                        DrawCallSequence(mCurrFrameResource, Recorded)).backBuffer]_vars
  /\ [](mCurrBackBuffer \in 0..(SwapChainBufferCount - 1))

\* A Draw on the last back buffer has returned: its frame ends with the
\* barrier back to PRESENT on that buffer and mCurrBackBuffer has wrapped
\* around to 0.
C15_Witness ==
  /\ pc = "idle" /\ Frames >= SwapChainBufferCount
  /\ mCurrBackBuffer = 0
  /\ mCommandList.alloc = mCurrFrameResource
  /\ mCommandList.cmds # <<>>
  /\ mCommandList.cmds[Len(mCommandList.cmds)] =
       Barrier(SwapChainBufferCount - 1, "RENDER_TARGET", "PRESENT")
  /\ KeepsBackBufferProtocol(mCommandList.cmds, SwapChainBufferCount - 1)

====
